---- MODULE Spec2Model ----
(***************************************************************************)
(* A model of scripts/sort_by_qed.py: one run of the CSV sorter (read the  *)
(* input, resolve the key column, sort descending, write the output), the  *)
(* pure functions resolve_qed_field, parse_qed_value and sort_rows, and    *)
(* the library behaviour they rest on (csv.DictReader, csv.DictWriter,     *)
(* float(), sorted()).                                                     *)
(*                                                                         *)
(* Column names are sequences of characters so that str.lower() is         *)
(* computed character by character.  Cell texts are strings; float() is    *)
(* the table of its values on the cell texts of the model.  A float is a   *)
(* record [kind, val]: a finite number in tenths, negative infinity, or    *)
(* NaN, compared as IEEE 754 compares them.  sorted() is CPython's         *)
(* list.sort for lists shorter than 64 items: one run found by count_run,  *)
(* the rest inserted by binarysort, with reverse=True done by reversing    *)
(* the list before and after.                                              *)
(***************************************************************************)
EXTENDS Integers, Sequences, FiniteSets, TLC

\* Most data lines in the input file of a modelled run.
MaxRows == 3
\* Longest list of records handed to sort_rows on its own.
MaxSortLen == 7
\* Longest header handed to resolve_qed_field on its own.
MaxHeaderLen == 3

VARIABLES
    pc,             \* position in main()
    files,          \* path -> [exists, lines]: the files on disk
    dirs,           \* the directories that exist
    files0,         \* the files on disk when the run started
    dirs0,          \* the directories when the run started
    input_path,     \* args.input
    output_path,    \* args.output
    qed_arg,        \* args.qed_field
    fieldnames,     \* reader.fieldnames
    qed_field,      \* the resolved key column
    rows,           \* list(reader)
    sorted_rows,    \* sort_rows(rows, qed_field)
    resorted_rows,  \* sort_rows applied to its own output
    written,        \* records writerows has written so far
    stdout,         \* lines printed on standard output
    stderr,         \* messages printed on standard error
    exit_code       \* the process's exit status, -1 while it runs

vars == <<pc, files, dirs, files0, dirs0, input_path, output_path, qed_arg,
          fieldnames, qed_field, rows, sorted_rows, resorted_rows, written,
          stdout, stderr, exit_code>>

----------------------------------------------------------------------------
(* Sequences *)

Range(s) == {s[i] : i \in 1..Len(s)}

Reverse(s) == [i \in 1..Len(s) |-> s[Len(s) + 1 - i]]

SeqsUpTo(S, n) == UNION {[1..k -> S] : k \in 0..n}

----------------------------------------------------------------------------
(* Column names and str.lower() *)

LowerChar(c) ==
    CASE c = "Q" -> "q"
      [] c = "E" -> "e"
      [] c = "D" -> "d"
      [] c = "I" -> "i"
      [] OTHER -> c

Lower(name) == [i \in 1..Len(name) |-> LowerChar(name[i])]

N_qed == <<"q", "e", "d">>
N_QED == <<"Q", "E", "D">>
N_Qed == <<"Q", "e", "d">>
N_id == <<"i", "d">>
N_ID == <<"I", "D">>

Names == {N_qed, N_QED, N_Qed, N_id, N_ID}

----------------------------------------------------------------------------
(* Messages on standard error *)

Msg(text, path, desired, available) ==
    [text |-> text, path |-> path, desired |-> desired, available |-> available]

InputNotFoundMsg(path) == Msg("Input file not found", path, <<>>, <<>>)
MissingHeaderMsg == Msg("Input CSV is missing a header row.", "", <<>>, <<>>)
ColumnNotFoundMsg(desired, available) ==
    Msg("QED column not found. Available columns", "", desired, available)
InterruptedMsg == Msg("Interrupted.", "", <<>>, <<>>)
ValueErrorMsg ==
    Msg("ValueError: dict contains fields not in fieldnames", "", <<>>, <<>>)
NoMsg == Msg("", "", <<>>, <<>>)

----------------------------------------------------------------------------
(* resolve_qed_field *)

\* mapping = {name.lower(): name for name in fieldnames}: a later name
\* replaces an earlier one with the same lower-case form.
LastIndexLower(names, key) ==
    LET hits == {i \in 1..Len(names) : Lower(names[i]) = key}
    IN  CHOOSE i \in hits : \A j \in hits : j <= i

\* resolve_qed_field without the two lower() calls: the lookup compares the
\* names as written.
resolve_qed_field_case_sensitive(names, desired) ==
    IF \A i \in 1..Len(names) : names[i] # desired
    THEN [found |-> FALSE, name |-> <<>>,
          msg |-> ColumnNotFoundMsg(desired, names)]
    ELSE [found |-> TRUE, name |-> desired, msg |-> NoMsg]

resolve_qed_field(names, desired) ==
    LET key == Lower(desired)
    IN  IF \A i \in 1..Len(names) : Lower(names[i]) # key
        THEN [found |-> FALSE, name |-> <<>>,
              msg |-> ColumnNotFoundMsg(desired, names)]
        ELSE [found |-> TRUE, name |-> names[LastIndexLower(names, key)],
              msg |-> NoMsg]

----------------------------------------------------------------------------
(* float() and parse_qed_value *)

\* The value a short row's missing cell has in the record (Python's None).
NoneVal == "<None>"

Num(v) == [kind |-> "num", val |-> v]
NegInf == [kind |-> "-inf", val |-> 0]
NaN == [kind |-> "nan", val |-> 0]
\* float(value) raised TypeError (None) or ValueError (not a number).
Raised == [kind |-> "raised", val |-> 0]

\* float(value) on the cell texts of the model, finite values in tenths.
FloatOf(value) ==
    CASE value = "0.1" -> Num(1)
      [] value = "0.5" -> Num(5)
      [] value = "5e-1" -> Num(5)
      [] value = "0.9" -> Num(9)
      [] value = "nan" -> NaN
      [] value = "-inf" -> NegInf
      [] OTHER -> Raised

parse_qed_value(value) ==
    IF FloatOf(value) = Raised THEN NegInf ELSE FloatOf(value)

\* a < b on floats: false whenever either side is NaN.
FloatLt(a, b) ==
    IF a.kind = "nan" \/ b.kind = "nan" THEN FALSE
    ELSE IF a.kind = "-inf" THEN b.kind # "-inf"
    ELSE IF b.kind = "-inf" THEN FALSE
    ELSE a.val < b.val

\* a == b and a >= b on floats: false whenever either side is NaN.
FloatEq(a, b) == a.kind # "nan" /\ b.kind # "nan" /\ a = b
FloatGe(a, b) == FloatEq(a, b) \/ FloatLt(b, a)

----------------------------------------------------------------------------
(* sorted(rows, key=..., reverse=True), as CPython's list.sort computes it *)
(* for fewer than 64 items.  K is the list of keys; a is the list itself,  *)
(* as the sequence of the items' original positions.                       *)

\* count_run: the length of the run that starts the list, strictly
\* descending (desc) or non-descending.
RECURSIVE RunEnd(_, _, _, _)
RunEnd(K, a, i, desc) ==
    IF i > Len(a) THEN Len(a)
    ELSE IF FloatLt(K[a[i]], K[a[i - 1]]) = desc THEN RunEnd(K, a, i + 1, desc)
    ELSE i - 1

ReversePrefix(a, n) ==
    [i \in 1..Len(a) |-> IF i <= n THEN a[n + 1 - i] ELSE a[i]]

\* binarysort's search: where the pivot goes in a[l..r-1].
RECURSIVE BinSearch(_, _, _, _, _)
BinSearch(K, a, pivot, l, r) ==
    IF l >= r THEN l
    ELSE LET p == l + ((r - l) \div 2)
         IN  IF FloatLt(K[pivot], K[a[p]])
             THEN BinSearch(K, a, pivot, l, p)
             ELSE BinSearch(K, a, pivot, p + 1, r)

\* Move a[start] to position l, shifting a[l..start-1] up by one.
InsertAt(a, start, l) ==
    [i \in 1..Len(a) |->
        IF i < l \/ i > start THEN a[i]
        ELSE IF i = l THEN a[start]
        ELSE a[i - 1]]

RECURSIVE BinarySort(_, _, _)
BinarySort(K, a, start) ==
    IF start > Len(a) THEN a
    ELSE BinarySort(K, InsertAt(a, start, BinSearch(K, a, a[start], 1, start)),
                    start + 1)

\* The ascending stable sort of the list a under the keys K.
ListSortAscending(K, a) ==
    IF Len(a) < 2 THEN a
    ELSE LET desc == FloatLt(K[a[2]], K[a[1]])
             run == RunEnd(K, a, 3, desc)
             b == IF desc THEN ReversePrefix(a, run) ELSE a
         IN  BinarySort(K, b, run + 1)

\* sorted(..., reverse=True): reverse, sort ascending, reverse.
SortedDescending(K) ==
    Reverse(ListSortAscending(K, Reverse([i \in 1..Len(K) |-> i])))

----------------------------------------------------------------------------
(* Records: the dict csv.DictReader builds for a row.  vals maps each      *)
(* column name to its cell; rest is the row's cells beyond the header,     *)
(* which the dict holds under the key None (absent when rest is empty).    *)

\* row.get(key, default)
RowGet(row, key, default) ==
    IF key \in DOMAIN row.vals THEN row.vals[key] ELSE default

\* sort_rows as sorted(rows, key=...)[::-1]: an ascending sort reversed
\* afterwards, which reverses the records with equal keys too.
sort_rows_reversed_afterwards(rs, qed_key) ==
    LET K == [i \in 1..Len(rs) |-> parse_qed_value(RowGet(rs[i], qed_key, ""))]
        perm == Reverse(ListSortAscending(K, [i \in 1..Len(K) |-> i]))
    IN  [i \in 1..Len(rs) |-> rs[perm[i]]]

sort_rows(rs, qed_key) ==
    LET K == [i \in 1..Len(rs) |-> parse_qed_value(RowGet(rs[i], qed_key, ""))]
        perm == SortedDescending(K)
    IN  [i \in 1..Len(rs) |-> rs[perm[i]]]

LastIndex(names, key) ==
    LET hits == {i \in 1..Len(names) : names[i] = key}
    IN  CHOOSE i \in hits : \A j \in hits : j <= i

\* csv.DictReader.__next__: dict(zip(fieldnames, row)), the cells beyond
\* the header under None, None for the columns a short row lacks.
DictRow(names, line) ==
    [vals |-> [k \in Range(names) |->
                 IF LastIndex(names, k) <= Len(line)
                 THEN line[LastIndex(names, k)] ELSE NoneVal],
     rest |-> IF Len(line) > Len(names)
              THEN SubSeq(line, Len(names) + 1, Len(line)) ELSE <<>>]

IsDataLine(line) == line # <<>>

\* list(reader): one record per line after the header, blank lines skipped.
DictRows(names, lines) ==
    LET data == SelectSeq(lines, IsDataLine)
    IN  [i \in 1..Len(data) |-> DictRow(names, data[i])]

\* csv.DictWriter._dict_to_list with extrasaction="raise": a key that is
\* no field name raises ValueError.
HasExtraFields(row) == row.rest # <<>>

\* The cells written for a record: one per field name, None as "".
DictToList(names, row) ==
    [i \in 1..Len(names) |->
        IF RowGet(row, names[i], NoneVal) = NoneVal THEN ""
        ELSE RowGet(row, names[i], NoneVal)]

----------------------------------------------------------------------------
(* The file system *)

P_in == "in.csv"
P_out == "out/sorted.csv"
Paths == {P_in, P_out}

\* Path.parent: the working directory "." always exists.
Parent(p) == IF p = P_out THEN "out" ELSE "."

Absent == [exists |-> FALSE, lines |-> <<>>]
File(lines) == [exists |-> TRUE, lines |-> lines]

\* The input files of a modelled run: the empty file, and a first line (a
\* header, or a blank line) followed by up to MaxRows lines: complete rows,
\* a row shorter than the header, a row longer than it, a blank line.
RunHeaders == {<<N_id, N_qed>>, <<N_ID, N_QED>>, <<N_id, N_ID>>, <<>>}
RunLines == {<<"a", "0.5">>, <<"b", "0.9">>, <<"c">>, <<"d", "0.9", "x">>, <<>>}
InputFiles ==
    {File(<<>>)} \cup
    {File(<<h>> \o ls) : h \in RunHeaders, ls \in SeqsUpTo(RunLines, MaxRows)}

\* What a file other than the input holds before the run.
OldFile == File(<<<<N_id>>, <<"old">>>>)

RunArgs == {N_qed, N_QED}

----------------------------------------------------------------------------
(* One run of main() under the __main__ guard *)

Init ==
    /\ pc = "main"
    /\ input_path \in Paths
    /\ output_path \in Paths
    /\ qed_arg \in RunArgs
    /\ dirs \in {{"."}, {".", "out"}}
    /\ \E f \in InputFiles \cup {Absent}, g \in {OldFile, Absent} :
           files = [p \in Paths |-> IF p = input_path THEN f ELSE g]
    /\ files[P_out].exists => Parent(P_out) \in dirs
    /\ files0 = files
    /\ dirs0 = dirs
    /\ fieldnames = <<>>
    /\ qed_field = <<>>
    /\ rows = <<>>
    /\ sorted_rows = <<>>
    /\ resorted_rows = <<>>
    /\ written = 0
    /\ stdout = <<>>
    /\ stderr = <<>>
    /\ exit_code = -1

\* The process ends: raise SystemExit(message) and an uncaught exception
\* both print to standard error and exit with status 1.
Exit(code, out, err) ==
    /\ pc' = "exited"
    /\ exit_code' = code
    /\ stdout' = stdout \o out
    /\ stderr' = stderr \o err

\* main() with the output directory created before the input is checked.
CheckInputExists_after_mkdir ==
    /\ pc = "main"
    /\ dirs' = dirs \cup {Parent(output_path)}
    /\ IF files[input_path].exists
       THEN pc' = "open_input" /\ UNCHANGED <<exit_code, stdout, stderr>>
       ELSE Exit(1, <<>>, <<InputNotFoundMsg(input_path)>>)
    /\ UNCHANGED <<files, files0, dirs0, input_path, output_path, qed_arg,
                   fieldnames, qed_field, rows, sorted_rows, resorted_rows,
                   written>>

\* if not input_path.exists(): raise SystemExit(...)
CheckInputExists ==
    /\ pc = "main"
    /\ IF files[input_path].exists
       THEN pc' = "open_input" /\ UNCHANGED <<exit_code, stdout, stderr>>
       ELSE Exit(1, <<>>, <<InputNotFoundMsg(input_path)>>)
    /\ UNCHANGED <<files, dirs, files0, dirs0, input_path, output_path, qed_arg,
                   fieldnames, qed_field, rows, sorted_rows, resorted_rows,
                   written>>

\* reader = csv.DictReader(f); reader.fieldnames is the first line of the
\* file, None when the file has no line at all.
ReadHeader ==
    /\ pc = "open_input"
    /\ IF files[input_path].lines = <<>>
       THEN /\ Exit(1, <<>>, <<MissingHeaderMsg>>)
            /\ UNCHANGED fieldnames
       ELSE /\ fieldnames' = Head(files[input_path].lines)
            /\ pc' = "resolve"
            /\ UNCHANGED <<exit_code, stdout, stderr>>
    /\ UNCHANGED <<files, dirs, files0, dirs0, input_path, output_path, qed_arg,
                   qed_field, rows, sorted_rows, resorted_rows, written>>

\* qed_field = resolve_qed_field(reader.fieldnames, args.qed_field)
ResolveField ==
    /\ pc = "resolve"
    /\ LET r == resolve_qed_field(fieldnames, qed_arg)
       IN  IF r.found
           THEN /\ qed_field' = r.name
                /\ pc' = "read_rows"
                /\ UNCHANGED <<exit_code, stdout, stderr>>
           ELSE /\ Exit(1, <<>>, <<r.msg>>)
                /\ UNCHANGED qed_field
    /\ UNCHANGED <<files, dirs, files0, dirs0, input_path, output_path, qed_arg,
                   fieldnames, rows, sorted_rows, resorted_rows, written>>

\* rows = list(reader)
ReadRows ==
    /\ pc = "read_rows"
    /\ rows' = DictRows(fieldnames, Tail(files[input_path].lines))
    /\ pc' = "sort"
    /\ UNCHANGED <<files, dirs, files0, dirs0, input_path, output_path, qed_arg,
                   fieldnames, qed_field, sorted_rows, resorted_rows, written,
                   stdout, stderr, exit_code>>

\* sorted_rows = sort_rows(rows, qed_field)
SortRows ==
    /\ pc = "sort"
    /\ sorted_rows' = sort_rows(rows, qed_field)
    /\ pc' = "mkdir"
    /\ UNCHANGED <<files, dirs, files0, dirs0, input_path, output_path, qed_arg,
                   fieldnames, qed_field, rows, resorted_rows, written,
                   stdout, stderr, exit_code>>

\* output_path.parent.mkdir(parents=True, exist_ok=True)
MakeParentDir ==
    /\ pc = "mkdir"
    /\ dirs' = dirs \cup {Parent(output_path)}
    /\ pc' = "open_output"
    /\ UNCHANGED <<files, files0, dirs0, input_path, output_path, qed_arg,
                   fieldnames, qed_field, rows, sorted_rows, resorted_rows,
                   written, stdout, stderr, exit_code>>

\* output_path.open("w"): the file is created, or truncated if it exists.
OpenOutput ==
    /\ pc = "open_output"
    /\ files' = [files EXCEPT ![output_path] = File(<<>>)]
    /\ pc' = "write_header"
    /\ UNCHANGED <<dirs, files0, dirs0, input_path, output_path, qed_arg,
                   fieldnames, qed_field, rows, sorted_rows, resorted_rows,
                   written, stdout, stderr, exit_code>>

\* writer.writeheader()
WriteHeader ==
    /\ pc = "write_header"
    /\ files' = [files EXCEPT ![output_path].lines = Append(@, fieldnames)]
    /\ pc' = "write_rows"
    /\ UNCHANGED <<dirs, files0, dirs0, input_path, output_path, qed_arg,
                   fieldnames, qed_field, rows, sorted_rows, resorted_rows,
                   written, stdout, stderr, exit_code>>

\* writer.writerows(sorted_rows), one record: the records are converted and
\* written one after the other, and a record with a key that is no field
\* name raises ValueError, which nothing catches; the with statement
\* closes the file with the records written before it.
WriteRow ==
    /\ pc = "write_rows"
    /\ written < Len(sorted_rows)
    /\ IF HasExtraFields(sorted_rows[written + 1])
       THEN /\ Exit(1, <<>>, <<ValueErrorMsg>>)
            /\ UNCHANGED <<files, written>>
       ELSE /\ files' = [files EXCEPT ![output_path].lines =
                           Append(@, DictToList(fieldnames, sorted_rows[written + 1]))]
            /\ written' = written + 1
            /\ UNCHANGED <<pc, exit_code, stdout, stderr>>
    /\ UNCHANGED <<dirs, files0, dirs0, input_path, output_path, qed_arg,
                   fieldnames, qed_field, rows, sorted_rows, resorted_rows>>

\* The end of the with block: every record is written, the file is closed.
CloseOutput ==
    /\ pc = "write_rows"
    /\ written = Len(sorted_rows)
    /\ pc' = "print"
    /\ UNCHANGED <<files, dirs, files0, dirs0, input_path, output_path, qed_arg,
                   fieldnames, qed_field, rows, sorted_rows, resorted_rows,
                   written, stdout, stderr, exit_code>>

Summary(count, field, path) == [count |-> count, field |-> field, path |-> path]

\* print(f"Wrote {len(sorted_rows)} rows sorted by ..."); main() returns and
\* the process exits with status 0.
PrintSummary ==
    /\ pc = "print"
    /\ Exit(0, <<Summary(Len(sorted_rows), qed_field, output_path)>>, <<>>)
    /\ UNCHANGED <<files, dirs, files0, dirs0, input_path, output_path, qed_arg,
                   fieldnames, qed_field, rows, sorted_rows, resorted_rows,
                   written>>

\* The handler printing the message and returning instead of sys.exit(...):
\* the process ends with status 0.
Interrupt_exit_zero ==
    /\ pc # "exited"
    /\ Exit(0, <<>>, <<InterruptedMsg>>)
    /\ UNCHANGED <<files, dirs, files0, dirs0, input_path, output_path, qed_arg,
                   fieldnames, qed_field, rows, sorted_rows, resorted_rows,
                   written>>

\* except KeyboardInterrupt: sys.exit("Interrupted."), at any point of main().
Interrupt ==
    /\ pc # "exited"
    /\ Exit(1, <<>>, <<InterruptedMsg>>)
    /\ UNCHANGED <<files, dirs, files0, dirs0, input_path, output_path, qed_arg,
                   fieldnames, qed_field, rows, sorted_rows, resorted_rows,
                   written>>

Next ==
    \/ CheckInputExists
    \/ ReadHeader
    \/ ResolveField
    \/ ReadRows
    \/ SortRows
    \/ MakeParentDir
    \/ OpenOutput
    \/ WriteHeader
    \/ WriteRow
    \/ CloseOutput
    \/ PrintSummary
    \/ Interrupt

Spec == Init /\ [][Next]_vars

----------------------------------------------------------------------------
(* sort_rows on its own: every list of up to MaxSortLen records whose key  *)
(* cell is blank, a number or "nan", then sort_rows and sort_rows again.   *)
(* The id cell of a record is its position in the input list.              *)

SortCells == {"", "nan", "0.1", "0.5"}

SortRecord(i, cell) ==
    [vals |-> (N_id :> ToString(i)) @@ (N_qed :> cell), rest |-> <<>>]

SortInput(cells) == [i \in 1..Len(cells) |-> SortRecord(i, cells[i])]

SortInit ==
    /\ pc = "sort"
    /\ fieldnames = <<N_id, N_qed>>
    /\ qed_field = N_qed
    /\ qed_arg = N_qed
    /\ rows \in {SortInput(cells) : cells \in SeqsUpTo(SortCells, MaxSortLen)}
    /\ sorted_rows = <<>>
    /\ resorted_rows = <<>>
    /\ input_path = P_in
    /\ output_path = P_out
    /\ files = [p \in Paths |-> Absent]
    /\ dirs = {"."}
    /\ files0 = files
    /\ dirs0 = dirs
    /\ written = 0
    /\ stdout = <<>>
    /\ stderr = <<>>
    /\ exit_code = -1

\* sort_rows applied to the list sort_rows returned.
SortAgain ==
    /\ pc = "mkdir"
    /\ resorted_rows' = sort_rows(sorted_rows, qed_field)
    /\ pc' = "sorted_again"
    /\ UNCHANGED <<files, dirs, files0, dirs0, input_path, output_path, qed_arg,
                   fieldnames, qed_field, rows, sorted_rows, written,
                   stdout, stderr, exit_code>>

SortNext ==
    \/ SortRows
    \/ SortAgain

SortSpec == SortInit /\ [][SortNext]_vars

----------------------------------------------------------------------------
(* resolve_qed_field on its own: every header of up to MaxHeaderLen names  *)
(* and every requested name.                                               *)

ResolveInit ==
    /\ pc = "resolve"
    /\ fieldnames \in SeqsUpTo(Names, MaxHeaderLen)
    /\ qed_arg \in Names
    /\ qed_field = <<>>
    /\ rows = <<>>
    /\ sorted_rows = <<>>
    /\ resorted_rows = <<>>
    /\ input_path = P_in
    /\ output_path = P_out
    /\ files = [p \in Paths |-> IF p = P_in THEN File(<<fieldnames>>) ELSE Absent]
    /\ dirs = {"."}
    /\ files0 = files
    /\ dirs0 = dirs
    /\ written = 0
    /\ stdout = <<>>
    /\ stderr = <<>>
    /\ exit_code = -1

ResolveNext ==
    \/ ResolveField

ResolveSpec == ResolveInit /\ [][ResolveNext]_vars

----------------------------------------------------------------------------
(* How a run ended *)

Exited == pc = "exited"

EndedWith(text) == Exited /\ stderr # <<>> /\ stderr[1].text = text

InputNotFound == EndedWith(InputNotFoundMsg(input_path).text)
MissingHeader == EndedWith(MissingHeaderMsg.text)
ColumnNotFound == EndedWith(ColumnNotFoundMsg(qed_arg, fieldnames).text)
Interrupted == EndedWith(InterruptedMsg.text)
WriteFailed == EndedWith(ValueErrorMsg.text)

StructuralAbort == InputNotFound \/ MissingHeader \/ ColumnNotFound

\* The run was not stopped by a structural error nor by the user.
RanToItsEnd == Exited /\ ~StructuralAbort /\ ~Interrupted

\* The records in the output file: its lines after the header.
OutputRecords == Tail(files[output_path].lines)

Count(seq, v) == Cardinality({i \in 1..Len(seq) : seq[i] = v})

\* The cells of the loaded records, in the order loaded.
LoadedRecords == [i \in 1..Len(rows) |-> DictToList(fieldnames, rows[i])]

KeyOf(row) == parse_qed_value(RowGet(row, qed_field, ""))
KeyCell(row) == RowGet(row, qed_field, "")

\* float() fails on the cell: it is missing, empty or no number.
InvalidCell(cell) == FloatOf(cell) = Raised
\* The cell parses as a finite number.
NumberCell(cell) == FloatOf(cell).kind = "num"

\* The position in the input list of a record of the sorted list.
PosInRows(row) == CHOOSE k \in 1..Len(rows) : rows[k] = row

----------------------------------------------------------------------------
(* The claims *)

\* C1: for every input that passes the structural checks, the number of
\* records written to the output file equals the number of records read from
\* the input file.  Stated of the runs nobody interrupted; a record with more
\* cells than the header refutes it.
C1_RowCountPreserved ==
    (RanToItsEnd /\ input_path # output_path) =>
        Len(OutputRecords) = Len(rows)

\* C2: the records written to the output are a permutation of the records
\* loaded from the input: every loaded record appears in the output as many
\* times as it was loaded, its cells unchanged.  Stated of the runs nobody
\* interrupted; the write failure of C1 refutes it.
C2_OutputIsPermutation ==
    (RanToItsEnd /\ input_path # output_path) =>
        /\ \A i \in 1..Len(rows) :
               Count(OutputRecords, LoadedRecords[i]) =
               Count(LoadedRecords, LoadedRecords[i])
        /\ \A i \in 1..Len(OutputRecords) :
               Count(LoadedRecords, OutputRecords[i]) > 0

\* C3: in the output of sort_rows, for all positions i < j, the key of
\* record i is greater than or equal to the key of record j.
C3_Descending ==
    pc # "sort" =>
        \A i, j \in 1..Len(sorted_rows) :
            i < j => FloatGe(KeyOf(sorted_rows[i]), KeyOf(sorted_rows[j]))

\* C4: every record whose key cell is missing, empty or non-numeric comes
\* after every record whose key cell is a number, the records without a
\* valid key keep their input order among themselves, and parse_qed_value
\* returns negative infinity for such a cell.
C4_InvalidKeysLast ==
    pc # "sort" =>
        \A i, j \in 1..Len(sorted_rows) :
            LET ci == KeyCell(sorted_rows[i])
                cj == KeyCell(sorted_rows[j])
            IN  /\ InvalidCell(ci) => parse_qed_value(ci) = NegInf
                /\ (i < j /\ InvalidCell(ci)) => ~NumberCell(cj)
                /\ (i < j /\ InvalidCell(ci) /\ InvalidCell(cj)) =>
                       PosInRows(sorted_rows[i]) < PosInRows(sorted_rows[j])

\* C5: sort_rows is stable: two records whose keys are equal appear in the
\* output in the order they had in the input.
C5_Stable ==
    pc # "sort" =>
        \A i, j \in 1..Len(sorted_rows) :
            (i < j /\ FloatEq(KeyOf(sorted_rows[i]), KeyOf(sorted_rows[j]))) =>
                PosInRows(sorted_rows[i]) < PosInRows(sorted_rows[j])

\* C6: when a run aborts on a structural error, no file and no directory has
\* been created or changed, because every structural check is passed before
\* the first step that touches the output side.
C6_NoOutputOnStructuralError ==
    /\ StructuralAbort => (files = files0 /\ dirs = dirs0)
    /\ (files # files0 \/ dirs # dirs0) =>
           /\ files0[input_path].exists
           /\ files0[input_path].lines # <<>>
           /\ resolve_qed_field(fieldnames, qed_arg).found
           /\ qed_field = resolve_qed_field(fieldnames, qed_arg).name

C6_Witness ==
    /\ ColumnNotFound
    /\ output_path = P_out
    /\ files[P_out] = OldFile
    /\ input_path = P_in

\* C7: a run never changes the input file, whatever the paths (the same
\* path for input and output included) and however the run ends; its only
\* effects on the file system are the output file and its parent directory.
C7_InputNeverMutated ==
    /\ files[input_path] = files0[input_path]
    /\ \A p \in Paths : p # output_path => files[p] = files0[p]
    /\ dirs \subseteq dirs0 \cup {Parent(output_path)}

\* C8: if some header name equals the requested name ignoring case,
\* resolve_qed_field returns a name of the header that equals the requested
\* name ignoring case; if none does, it fails with a message that lists the
\* header's names and returns nothing.
C8_ResolveIgnoresCase ==
    pc # "resolve" =>
        IF \E i \in 1..Len(fieldnames) : Lower(fieldnames[i]) = Lower(qed_arg)
        THEN /\ pc = "read_rows"
             /\ qed_field \in Range(fieldnames)
             /\ Lower(qed_field) = Lower(qed_arg)
             /\ stderr = <<>>
        ELSE /\ Exited
             /\ exit_code # 0
             /\ qed_field = <<>>
             /\ stderr = <<ColumnNotFoundMsg(qed_arg, fieldnames)>>

C8_Witness ==
    /\ pc = "read_rows"
    /\ fieldnames = <<N_id, N_QED>>
    /\ qed_arg = N_qed
    /\ qed_field = N_QED

C10_Idempotent ==
    pc = "sorted_again" => resorted_rows = sorted_rows

C10_Witness ==
    /\ pc = "sorted_again"
    /\ resorted_rows = sorted_rows
    /\ sorted_rows # rows
    /\ \E i, j \in 1..Len(rows) :
           i < j /\ FloatEq(KeyOf(rows[i]), KeyOf(rows[j]))
    /\ \E i \in 1..Len(rows) : KeyOf(rows[i]) = NaN

====
